---- MODULE Spec2Model ----
(***************************************************************************)
(* audioscribe (src/app.py): a FastAPI service that stores uploaded audio, *)
(* has Whisper transcribe it, keeps the timed segments in two SQLite       *)
(* tables that every request reaches through one module-level connection   *)
(* and cursor, and serves a browser client that plays the audio with a     *)
(* synchronised, clickable transcript.                                     *)
(*                                                                         *)
(* Spec       the HTTP handlers, one request at a time (each handler is    *)
(*            one action), with the faults an upload can meet and a        *)
(*            restart of the process.                                      *)
(* SpecConc   the same handlers as FastAPI runs them, on worker threads:   *)
(*            one action per statement that touches the shared cursor,     *)
(*            the tables or the upload directory, interleaved at will.     *)
(* SpecClient the page's script: library, loading an audio, highlighting   *)
(*            during playback and deleting, with its fetches in flight     *)
(*            and the server answering them one at a time.                 *)
(***************************************************************************)
EXTENDS Naturals, Sequences, FiniteSets, Bags, TLC

\* ------------------------------------------------------------------ bounds
\* How many POST /transcribe requests a behaviour holds.
MaxUploads == 2
\* The longest segment list the transcription collaborator returns.
MaxSegs == 2
\* How many worker threads handle requests at the same time (SpecConc).
Workers == 2
\* How many POST /transcribe requests a behaviour of SpecConc holds.
MaxConcUploads == 1
\* How many fetches of the page are in flight at the same time (SpecClient).
MaxInFlight == 2
\* The latest playback position, in seconds (SpecClient).
MaxTime == 13

\* ------------------------------------------------------------ input values
\* The values uuid.uuid4() returns, in the order of the calls: all of one
\* length (a UUID is 36 characters), no two equal.
UuidPool == <<"u1", "u2", "u3", "u4">>

\* Original filenames of uploads (file.filename).
Names == {"a.mp3", "b_1.mp3"}

\* What model.transcribe can return as result['segments'].  Whisper cuts the
\* audio into consecutive intervals, so the lists are the first n segments of
\* one timeline, n up to MaxSegs; one more list repeats a triple, because the
\* store must keep whatever repetition it is given.  Texts keep the leading
\* blank Whisper gives them.
Texts == <<" ko", " ge", " de", " su">>

Timeline == [i \in 1..Len(Texts) |-> [start |-> 2 * (i - 1), end |-> 2 * i, text |-> Texts[i]]]

Results ==
    { SubSeq(Timeline, 1, n) : n \in 0..MaxSegs }
        \cup { <<Timeline[1], Timeline[1]>> }

\* ------------------------------------------------------------------- state
VARIABLES
    audio,       \* table audio as the shared connection sees it: rows in rowid order
    segments,    \* table segments as the shared connection sees it
    dbAudio,     \* table audio as last committed to app.db
    dbSegments,  \* table segments as last committed to app.db
    files,       \* names of the files in UPLOAD_DIR
    issued,      \* number of uuid4() values drawn so far
    uploads,     \* history: one record per POST /transcribe, in request order
    deleted,     \* history: ids for which DELETE /delete returned "deleted"
    resp,        \* the response to the latest POST or DELETE request
    thr,         \* SpecConc: per worker thread, the request it handles and its locals
    cursor,      \* SpecConc: the shared cursor: the columns of its latest statement
                 \*           and the rows not fetched yet
    currentAudioId,  \* SpecClient: let currentAudioId
    deleteAudioId,   \* SpecClient: let deleteAudioId
    audioSrc,        \* SpecClient: audio.src
    currentTime,     \* SpecClient: audio.currentTime
    transcript,      \* SpecClient: the .segment spans of #transcript, in document order
    library,         \* SpecClient: the ids of the .audio-item entries of #library
    activeItem,      \* SpecClient: the id of the .audio-item that carries "active"
    confirmOpen,     \* SpecClient: #confirmModal is displayed
    calls,           \* SpecClient: the async calls that wait for their fetch
    srv,             \* SpecClient: the ids the server holds
    gone             \* SpecClient, history: ids whose delete, asked for while they were
                     \*   the current audio, has been answered and handled

serverVars == <<audio, segments, dbAudio, dbSegments, files, issued, uploads, deleted>>
concVars == <<thr, cursor>>
clientVars == <<currentAudioId, deleteAudioId, audioSrc, currentTime, transcript, library,
                activeItem, confirmOpen, calls, srv, gone>>
vars == <<audio, segments, dbAudio, dbSegments, files, issued, uploads, deleted, resp,
          thr, cursor, currentAudioId, deleteAudioId, audioSrc, currentTime, transcript,
          library, activeItem, confirmOpen, calls, srv, gone>>

Threads == 1..Workers

\* ------------------------------------------------------------- pure helpers
uuid4(n) == UuidPool[n]

AllIds == { uuid4(n) : n \in 1..MaxUploads }

\* (mutant) the stored name leaves the id out.
StoredName_NoId(audio_id, fname) == fname

\* filename = audio_id + "_" + file.filename
StoredName(audio_id, fname) == audio_id \o "_" \o fname

\* os.path.join(UPLOAD_DIR, filename) names one file of the upload directory
\* per filename; the directory is modelled as the set of those filenames.
AudioRow(audio_id, filename, original) ==
    [id |-> audio_id, filename |-> filename, original_name |-> original]

SegmentRow(audio_id, s) ==
    [audio_id |-> audio_id, start |-> s.start, end |-> s.end, text |-> s.text]

\* The loop "for s in result['segments']: INSERT INTO segments", stopped after
\* its first k rows.
RECURSIVE InsertSegments(_, _, _, _)
InsertSegments(tbl, audio_id, segs, k) ==
    IF k = 0 \/ segs = <<>> THEN tbl
    ELSE InsertSegments(Append(tbl, SegmentRow(audio_id, Head(segs))),
                        audio_id, Tail(segs), k - 1)

\* A query's rows are tuples of the selected columns, in rowid order.
\* SELECT filename FROM audio WHERE id=?
SelectFilename(tbl, audio_id) ==
    LET hit == SelectSeq(tbl, LAMBDA r : r.id = audio_id)
    IN  [i \in 1..Len(hit) |-> <<hit[i].filename>>]

\* (mutant) the WHERE clause is missing: every audio's segments come back.
SelectSegments_NoWhere(tbl, audio_id) ==
    [i \in 1..Len(tbl) |-> <<tbl[i].start, tbl[i].end, tbl[i].text>>]

\* SELECT start, end, text FROM segments WHERE audio_id=?
SelectSegments(tbl, audio_id) ==
    LET hit == SelectSeq(tbl, LAMBDA r : r.audio_id = audio_id)
    IN  [i \in 1..Len(hit) |-> <<hit[i].start, hit[i].end, hit[i].text>>]

\* {"start": r[0], "end": r[1], "text": r[2]} for r in cursor.fetchall()
SegmentDicts(rows) ==
    [i \in 1..Len(rows) |-> [start |-> rows[i][1], end |-> rows[i][2], text |-> rows[i][3]]]

\* SELECT id, original_name FROM audio
SelectLibrary(tbl) ==
    [i \in 1..Len(tbl) |-> <<tbl[i].id, tbl[i].original_name>>]

\* {"id": r[0], "original_name": r[1]} for r in cursor.fetchall()
LibraryDicts(rows) ==
    [i \in 1..Len(rows) |-> [id |-> rows[i][1], original_name |-> rows[i][2]]]

\* (mutant) the segments of a deleted audio are left in the table.
DeleteSegmentRows_Kept(tbl, audio_id) == tbl

\* DELETE FROM segments WHERE audio_id=?
DeleteSegmentRows(tbl, audio_id) == SelectSeq(tbl, LAMBDA r : r.audio_id # audio_id)

\* DELETE FROM audio WHERE id=?
DeleteAudioRow(tbl, audio_id) == SelectSeq(tbl, LAMBDA r : r.id # audio_id)


\* ============================================================ the page's script
\* What the server holds when the page is opened: two audios with their
\* stored names and segments (seconds).
ServerIds == {"u1", "u2"}

StoredNameOf(id) == StoredName(id, "a.mp3")

SegmentsOf(id) ==
    IF id = "u1" THEN << [start |-> 0, end |-> 10], [start |-> 10, end |-> 12] >>
                 ELSE << [start |-> 11, end |-> 12] >>

\* The playback times looked at: 1..9 lie where 0 lies, in the first segment
\* of "u1" alone.
ClockTimes == {0} \cup 10..MaxTime

\* span.dataset.start = s.start stores the number as its decimal string;
\* a string is modelled as the sequence of its digits.
RECURSIVE NumberToString(_)
NumberToString(n) ==
    IF n < 10 THEN <<n>> ELSE Append(NumberToString(n \div 10), n % 10)

\* parseFloat(segment.dataset.start)
RECURSIVE ParseFloat(_)
ParseFloat(str) ==
    IF Len(str) = 1 THEN str[1]
    ELSE 10 * ParseFloat(SubSeq(str, 1, Len(str) - 1)) + str[Len(str)]

\* 585-597: one span per segment, class "segment" only; s is what its onclick
\* closure keeps, of is the audio the segment belongs to.
Span(id, s) ==
    [of |-> id, s |-> s,
     dataset |-> [start |-> NumberToString(s.start), end |-> NumberToString(s.end)],
     active |-> FALSE, playing |-> FALSE]

RenderSegments(id, segs) == [i \in 1..Len(segs) |-> Span(id, segs[i])]

\* (mutant) the interval is taken as open at its end.
InInterval_EndOpen(t, start, end) == t >= start /\ t < end

\* 615: currentTime >= start && currentTime <= end
InInterval(t, start, end) == t >= start /\ t <= end

\* 611-620: every span gets or loses "playing"; nothing else of it changes.
Highlight(spans, t) ==
    [i \in 1..Len(spans) |->
        [spans[i] EXCEPT !.playing = InInterval(t, ParseFloat(spans[i].dataset.start),
                                                ParseFloat(spans[i].dataset.end))]]

\* 594-595: "active" is taken off every span and put on the clicked one.
Activate(spans, k) == [i \in 1..Len(spans) |-> [spans[i] EXCEPT !.active = (i = k)]]

\* 490-491, 455-462 and 678: nothing selected, the empty state shown, and the
\* first loadLibrary() waiting for its fetch.
ClientInit ==
    /\ currentAudioId = "null"
    /\ deleteAudioId = "null"
    /\ audioSrc = ""
    /\ currentTime = 0
    /\ transcript = <<>>
    /\ library = {}
    /\ activeItem = "null"
    /\ confirmOpen = FALSE
    /\ calls = SetToBag({ [fn |-> "loadLibrary", id |-> "null", wasCurrent |-> FALSE,
                           answer |-> [status |-> "none"]] })
    /\ srv = ServerIds
    /\ gone = {}

\* ------------------------------------------------------------------- Init
\* The module-level code: the upload directory exists, both tables exist and
\* are empty, and that is committed.
Init ==
    /\ audio = <<>>
    /\ segments = <<>>
    /\ dbAudio = <<>>
    /\ dbSegments = <<>>
    /\ files = {}
    /\ issued = 0
    /\ uploads = <<>>
    /\ deleted = {}
    /\ resp = [op |-> "start"]
    /\ thr = [t \in Threads |-> [pc |-> "idle"]]
    /\ cursor = [cols |-> <<>>, rows |-> <<>>]
    /\ ClientInit

\* ------------------------------------------------- POST /transcribe (687-707)
\* Where a request can stop: nowhere ("none"), at open() of the upload path
\* ("open"), in model.transcribe ("model"), or at an INSERT of the segment
\* loop after k rows went in ("insert": a segment the collaborator left
\* malformed, or a write the store refuses).  No handler catches any of them.
TranscribeFaults(result) ==
    { [at |-> "none", k |-> Len(result)] }
        \cup { [at |-> "insert", k |-> j - 1] : j \in 1..Len(result) }
        \cup (IF result = <<>>
              THEN { [at |-> "open", k |-> 0], [at |-> "model", k |-> 0] }
              ELSE {})

\* (mutant) conn.commit() is never called: nothing becomes durable.
Commit_Missing(view, durable) == durable

\* conn.commit(): the shared connection's pending changes become durable.
Commit(view, durable) == view

TranscribeAs(name, result, fault) ==
    LET audio_id == uuid4(issued + 1)
        filename == StoredName(audio_id, name)
        reachedInserts == fault.at \in {"insert", "none"}
        audioAfter == IF reachedInserts
                      THEN Append(audio, AudioRow(audio_id, filename, name))
                      ELSE audio
        segmentsAfter == IF reachedInserts
                         THEN InsertSegments(segments, audio_id, result, fault.k)
                         ELSE segments
    IN  /\ issued' = issued + 1
        /\ files' = IF fault.at = "open" THEN files ELSE files \cup {filename}
        /\ audio' = audioAfter
        /\ segments' = segmentsAfter
        /\ dbAudio' = IF fault.at = "none" THEN Commit(audioAfter, dbAudio) ELSE dbAudio
        /\ dbSegments' = IF fault.at = "none" THEN Commit(segmentsAfter, dbSegments) ELSE dbSegments
        /\ uploads' = Append(uploads, [id |-> audio_id, name |-> name, filename |-> filename,
                                       produced |-> result, ok |-> fault.at = "none"])
        /\ resp' = IF fault.at = "none"
                   THEN [op |-> "transcribe", status |-> "ok"]
                   ELSE [op |-> "transcribe", status |-> "error", raised |-> fault.at]
        /\ UNCHANGED <<deleted, concVars, clientVars>>

Transcribe ==
    /\ issued < MaxUploads
    /\ \E name \in Names, result \in Results :
         \E fault \in TranscribeFaults(result) : TranscribeAs(name, result, fault)

\* ------------------------------------------------------ GET /library (709-712)
LibraryResponse ==
    [op |-> "library", status |-> "ok", body |-> LibraryDicts(SelectLibrary(audio))]

\* A pure read: the answer is LibraryResponse of the state it is asked in.
Library ==
    /\ LibraryResponse.status = "ok"
    /\ UNCHANGED vars

\* ----------------------------------------- GET /audio_data/{audio_id} (714-725)
\* cursor.fetchone() is None when no row matches, and None[0] raises
\* TypeError, which nothing catches.
AudioDataResponse(audio_id) ==
    LET rows == SelectFilename(audio, audio_id)
    IN  IF rows = <<>>
        THEN [op |-> "audio_data", arg |-> audio_id, status |-> "error", raised |-> "TypeError"]
        ELSE [op |-> "audio_data", arg |-> audio_id, status |-> "ok",
              audio_url |-> "/audio/" \o rows[1][1],
              segments |-> SegmentDicts(SelectSegments(segments, audio_id))]

\* A pure read, also when it raises.
AudioData ==
    /\ \E audio_id \in AllIds : AudioDataResponse(audio_id).status \in {"ok", "error"}
    /\ UNCHANGED vars

\* ------------------------------------------- DELETE /delete/{audio_id} (727-747)
\* (mutant) the file is left in the upload directory.
RemoveFile_Kept(dir, filename) == dir

\* if os.path.exists(filepath): os.remove(filepath)
RemoveFile(dir, filename) == dir \ {filename}

DeleteAudioAs(audio_id) ==
    LET result == SelectFilename(audio, audio_id)
    IN  IF result # <<>>
        THEN LET audioAfter == DeleteAudioRow(audio, audio_id)
                 segmentsAfter == DeleteSegmentRows(segments, audio_id)
             IN  /\ files' = RemoveFile(files, result[1][1])
                 /\ segments' = segmentsAfter
                 /\ audio' = audioAfter
                 /\ dbAudio' = Commit(audioAfter, dbAudio)
                 /\ dbSegments' = Commit(segmentsAfter, dbSegments)
                 /\ deleted' = deleted \cup {audio_id}
                 /\ resp' = [op |-> "delete", arg |-> audio_id, status |-> "deleted"]
                 /\ UNCHANGED <<issued, uploads, concVars, clientVars>>
        ELSE /\ resp' = [op |-> "delete", arg |-> audio_id, status |-> "not_found"]
             /\ UNCHANGED <<serverVars, concVars, clientVars>>

DeleteAudio == \E audio_id \in AllIds : DeleteAudioAs(audio_id)

\* ------------------------------------------------ GET /audio/{filename} (749-751)
\* FileResponse serves the file when it is there and fails when it is not.
AllStoredNames == { StoredName(id, n) : id \in AllIds, n \in Names }

GetAudioResponse(filename) ==
    [op |-> "audio", arg |-> filename,
     status |-> IF filename \in files THEN "ok" ELSE "error"]

GetAudio ==
    /\ \E filename \in AllStoredNames : GetAudioResponse(filename).status \in {"ok", "error"}
    /\ UNCHANGED vars

\* ----------------------------------------------------- process restart (51-67)
\* The module-level code runs again: a new connection sees what was committed.
Restart ==
    /\ audio' = dbAudio
    /\ segments' = dbSegments
    /\ UNCHANGED <<dbAudio, dbSegments, files, issued, uploads, deleted, resp, concVars,
                   clientVars>>

Next ==
    \/ Transcribe
    \/ Library
    \/ AudioData
    \/ DeleteAudio
    \/ GetAudio
    \/ Restart

Spec == Init /\ [][Next]_vars


\* =================================================== handlers on worker threads
\* FastAPI runs the "def" handlers in a thread pool; all of them use the one
\* module-level conn and cursor (51-52, check_same_thread=False).  A statement
\* on the cursor is one step; cursor.execute replaces the rows the cursor
\* held, and an INSERT or DELETE leaves it with none.
Idle == [pc |-> "idle"]

\* The cursor after an INSERT, a DELETE, or a fetchall().
NoRows == [cols |-> <<>>, rows |-> <<>>]

\* The cursor after cursor.execute of a SELECT.
FilenameQuery(audio_id) == [cols |-> <<"filename">>, rows |-> SelectFilename(audio, audio_id)]
SegmentsQuery(audio_id) ==
    [cols |-> <<"start", "end", "text">>, rows |-> SelectSegments(segments, audio_id)]
LibraryQuery == [cols |-> <<"id", "original_name">>, rows |-> SelectLibrary(audio)]

\* cursor.fetchone() takes the first row away.
AfterFetchOne == [cols |-> cursor.cols, rows |-> Tail(cursor.rows)]

\* f"/audio/{filename}": a REAL column is formatted like 2.0.
Formatted(col, value) == IF col \in {"start", "end"} THEN ToString(value) \o ".0" ELSE value

Finished(t, ret) == [thr EXCEPT ![t] = [pc |-> "done", op |-> thr[t].op, arg |-> thr[t].arg,
                                          had |-> thr[t].had, ret |-> ret]]

\* ---- POST /transcribe
\* 689-694: the id, the stored name, the file written.
TWrite(t) ==
    /\ thr[t].pc = "idle"
    /\ issued < MaxConcUploads
    /\ \E name \in Names :
         LET audio_id == uuid4(issued + 1)
         IN  /\ thr' = [thr EXCEPT ![t] = [pc |-> "t_audio", op |-> "transcribe", arg |-> audio_id,
                                           had |-> FALSE, name |-> name,
                                           filename |-> StoredName(audio_id, name)]]
             /\ files' = files \cup {StoredName(audio_id, name)}
    /\ issued' = issued + 1
    /\ UNCHANGED <<clientVars, audio, segments, dbAudio, dbSegments, uploads, deleted, resp, cursor>>

\* 697-699: the collaborator's result, then INSERT INTO audio.
TInsertAudio(t) ==
    /\ thr[t].pc = "t_audio"
    /\ \E result \in Results :
         thr' = [thr EXCEPT ![t] = [pc |-> "t_segments", op |-> "transcribe", arg |-> thr[t].arg,
                                    had |-> FALSE, result |-> result, k |-> 0]]
    /\ audio' = Append(audio, AudioRow(thr[t].arg, thr[t].filename, thr[t].name))
    /\ cursor' = NoRows
    /\ UNCHANGED <<clientVars, segments, dbAudio, dbSegments, files, issued, uploads, deleted, resp>>

\* 700-704: one INSERT INTO segments.
TInsertSegment(t) ==
    /\ thr[t].pc = "t_segments"
    /\ thr[t].k < Len(thr[t].result)
    /\ segments' = Append(segments, SegmentRow(thr[t].arg, thr[t].result[thr[t].k + 1]))
    /\ thr' = [thr EXCEPT ![t].k = @ + 1]
    /\ cursor' = NoRows
    /\ UNCHANGED <<clientVars, audio, dbAudio, dbSegments, files, issued, uploads, deleted, resp>>

\* 705-707: conn.commit() and the answer.
TCommit(t) ==
    /\ thr[t].pc = "t_segments"
    /\ thr[t].k = Len(thr[t].result)
    /\ dbAudio' = Commit(audio, dbAudio)
    /\ dbSegments' = Commit(segments, dbSegments)
    /\ thr' = Finished(t, [status |-> "ok"])
    /\ UNCHANGED <<clientVars, audio, segments, files, issued, uploads, deleted, resp, cursor>>

\* ---- DELETE /delete/{audio_id}
\* 730: cursor.execute(SELECT filename ...).  "had" notes whether the id had
\* an audio row when the request looked it up.
DSelect(t) ==
    /\ thr[t].pc = "idle"
    /\ \E audio_id \in AllIds :
         /\ cursor' = FilenameQuery(audio_id)
         /\ thr' = [thr EXCEPT ![t] = [pc |-> "d_fetch", op |-> "delete", arg |-> audio_id,
                                       had |-> SelectFilename(audio, audio_id) # <<>>]]
    /\ UNCHANGED <<clientVars, serverVars, resp>>

\* 731-734: result = cursor.fetchone(); not_found when it is None;
\* os.path.join raises TypeError when result[0] is a number.  "removed" notes
\* whether this request has removed the file it names.
DFetch(t) ==
    /\ thr[t].pc = "d_fetch"
    /\ IF cursor.rows = <<>>
       THEN /\ thr' = Finished(t, [status |-> "not_found"])
            /\ UNCHANGED cursor
       ELSE /\ thr' = IF cursor.cols[1] = "start"
                      THEN Finished(t, [status |-> "error", raised |-> "TypeError"])
                      ELSE [thr EXCEPT ![t] = [pc |-> "d_exists", op |-> "delete",
                                               arg |-> thr[t].arg, had |-> thr[t].had,
                                               filename |-> Head(cursor.rows)[1],
                                               removed |-> FALSE]]
            /\ cursor' = AfterFetchOne
    /\ UNCHANGED <<clientVars, serverVars, resp>>

\* 737: os.path.exists(filepath)
DExists(t) ==
    /\ thr[t].pc = "d_exists"
    /\ thr' = [thr EXCEPT ![t].pc = IF thr[t].filename \in files THEN "d_remove" ELSE "d_segments"]
    /\ UNCHANGED <<clientVars, serverVars, resp, cursor>>

\* 738: os.remove(filepath) raises FileNotFoundError when the file is gone
\* by now; nothing catches it.
DRemove(t) ==
    /\ thr[t].pc = "d_remove"
    /\ IF thr[t].filename \in files
       THEN /\ files' = RemoveFile(files, thr[t].filename)
            /\ thr' = [thr EXCEPT ![t].pc = "d_segments", ![t].removed = TRUE]
       ELSE /\ thr' = Finished(t, [status |-> "error", raised |-> "FileNotFoundError"])
            /\ UNCHANGED files
    /\ UNCHANGED <<clientVars, audio, segments, dbAudio, dbSegments, issued, uploads, deleted, resp, cursor>>

\* 741: DELETE FROM segments
DDeleteSegments(t) ==
    /\ thr[t].pc = "d_segments"
    /\ segments' = DeleteSegmentRows(segments, thr[t].arg)
    /\ cursor' = NoRows
    /\ thr' = [thr EXCEPT ![t].pc = "d_audio"]
    /\ UNCHANGED <<clientVars, audio, dbAudio, dbSegments, files, issued, uploads, deleted, resp>>

\* 742: DELETE FROM audio
DDeleteAudio(t) ==
    /\ thr[t].pc = "d_audio"
    /\ audio' = DeleteAudioRow(audio, thr[t].arg)
    /\ cursor' = NoRows
    /\ thr' = [thr EXCEPT ![t].pc = "d_commit"]
    /\ UNCHANGED <<clientVars, segments, dbAudio, dbSegments, files, issued, uploads, deleted, resp>>

\* 743-745: conn.commit() and the answer.
DCommit(t) ==
    /\ thr[t].pc = "d_commit"
    /\ dbAudio' = Commit(audio, dbAudio)
    /\ dbSegments' = Commit(segments, dbSegments)
    /\ thr' = Finished(t, [status |-> "deleted"])
    /\ UNCHANGED <<clientVars, audio, segments, files, issued, uploads, deleted, resp, cursor>>

\* ---- GET /library
\* 711: cursor.execute(SELECT id, original_name ...)
LSelect(t) ==
    /\ thr[t].pc = "idle"
    /\ cursor' = LibraryQuery
    /\ thr' = [thr EXCEPT ![t] = [pc |-> "l_fetch", op |-> "library", arg |-> "",
                                  had |-> FALSE, own |-> SelectLibrary(audio)]]
    /\ UNCHANGED <<clientVars, serverVars, resp>>

\* 712: the list built from cursor.fetchall(); r[1] of a one-column row
\* raises IndexError.
LFetchAll(t) ==
    /\ thr[t].pc = "l_fetch"
    /\ thr' = Finished(t, IF cursor.rows = <<>> \/ Len(cursor.cols) >= 2
                          THEN [status |-> "ok", body |-> LibraryDicts(cursor.rows),
                                own |-> LibraryDicts(thr[t].own)]
                          ELSE [status |-> "error", raised |-> "IndexError"])
    /\ cursor' = NoRows
    /\ UNCHANGED <<clientVars, serverVars, resp>>

\* ---- GET /audio_data/{audio_id}
\* 716: cursor.execute(SELECT filename ...)
ASelectFilename(t) ==
    /\ thr[t].pc = "idle"
    /\ \E audio_id \in AllIds :
         /\ cursor' = FilenameQuery(audio_id)
         /\ thr' = [thr EXCEPT ![t] = [pc |-> "a_fetch", op |-> "audio_data", arg |-> audio_id,
                                       had |-> SelectFilename(audio, audio_id) # <<>>]]
    /\ UNCHANGED <<clientVars, serverVars, resp>>

\* 717: filename = cursor.fetchone()[0]
AFetchOne(t) ==
    /\ thr[t].pc = "a_fetch"
    /\ IF cursor.rows = <<>>
       THEN /\ thr' = Finished(t, [status |-> "error", raised |-> "TypeError"])
            /\ UNCHANGED cursor
       ELSE /\ thr' = [thr EXCEPT ![t] = [pc |-> "a_select", op |-> "audio_data", arg |-> thr[t].arg,
                                          had |-> thr[t].had,
                                          filename |-> Formatted(cursor.cols[1], Head(cursor.rows)[1])]]
            /\ cursor' = AfterFetchOne
    /\ UNCHANGED <<clientVars, serverVars, resp>>

\* 718: cursor.execute(SELECT start, end, text ...)
ASelectSegments(t) ==
    /\ thr[t].pc = "a_select"
    /\ cursor' = SegmentsQuery(thr[t].arg)
    /\ thr' = [thr EXCEPT ![t] = [pc |-> "a_fetchall", op |-> "audio_data", arg |-> thr[t].arg,
                                  had |-> thr[t].had, filename |-> thr[t].filename,
                                  own |-> SelectSegments(segments, thr[t].arg)]]
    /\ UNCHANGED <<clientVars, serverVars, resp>>

\* 719-725: the answer built from cursor.fetchall(); r[2] of a shorter row
\* raises IndexError.
AFetchAll(t) ==
    /\ thr[t].pc = "a_fetchall"
    /\ thr' = Finished(t, IF cursor.rows = <<>> \/ Len(cursor.cols) >= 3
                          THEN [status |-> "ok", audio_url |-> "/audio/" \o thr[t].filename,
                                segments |-> SegmentDicts(cursor.rows),
                                own |-> SegmentDicts(thr[t].own)]
                          ELSE [status |-> "error", raised |-> "IndexError"])
    /\ cursor' = NoRows
    /\ UNCHANGED <<clientVars, serverVars, resp>>

\* The response is sent and the thread is free again.
Return(t) ==
    /\ thr[t].pc = "done"
    /\ thr' = [thr EXCEPT ![t] = Idle]
    /\ UNCHANGED <<clientVars, serverVars, resp, cursor>>

NextConc ==
    \E t \in Threads :
        \/ TWrite(t) \/ TInsertAudio(t) \/ TInsertSegment(t) \/ TCommit(t)
        \/ DSelect(t) \/ DFetch(t) \/ DExists(t) \/ DRemove(t)
        \/ DDeleteSegments(t) \/ DDeleteAudio(t) \/ DCommit(t)
        \/ LSelect(t) \/ LFetchAll(t)
        \/ ASelectFilename(t) \/ AFetchOne(t) \/ ASelectSegments(t) \/ AFetchAll(t)
        \/ Return(t)

SpecConc == Init /\ [][NextConc]_vars

\* ===================================================== the page's script, steps
\* An async function runs to its await, waits there for the server's answer,
\* and runs on when the answer is in; between two awaits nothing else runs.
Call(fn, id, wasCurrent) ==
    [fn |-> fn, id |-> id, wasCurrent |-> wasCurrent, answer |-> [status |-> "none"]]

Waiting(c, fn) == c.fn = fn /\ c.answer.status = "none"
Answered(c, fn) == c.fn = fn /\ c.answer.status # "none"

\* The calls in flight are a bag: nothing orders the answers.
Started(c) == calls (+) SetToBag({c})
Ended(c) == calls (-) SetToBag({c})
AnsweredWith(c, answer) == Ended(c) (+) SetToBag({[c EXCEPT !.answer = answer]})

serverSide == <<audio, segments, dbAudio, dbSegments, files, issued, uploads, deleted, resp,
                thr, cursor>>

\* ---- the server, one request at a time
\* 709-712
ServeLibrary ==
    /\ \E c \in BagToSet(calls) :
         /\ Waiting(c, "loadLibrary")
         /\ calls' = AnsweredWith(c, [status |-> "ok", ids |-> srv])
    /\ UNCHANGED <<serverSide, currentAudioId, deleteAudioId, audioSrc, currentTime, transcript,
                   library, activeItem, confirmOpen, srv, gone>>

\* 714-725: the data of a stored id; an error page, which is no JSON, for
\* any other.
ServeAudioData ==
    /\ \E c \in BagToSet(calls) :
         /\ Waiting(c, "loadAudio")
         /\ calls' = AnsweredWith(c,
                        IF c.id \in srv
                        THEN [status |-> "ok",
                              audio_url |-> "/audio/" \o StoredNameOf(c.id),
                              segments |-> SegmentsOf(c.id)]
                        ELSE [status |-> "error"])
    /\ UNCHANGED <<serverSide, currentAudioId, deleteAudioId, audioSrc, currentTime, transcript,
                   library, activeItem, confirmOpen, srv, gone>>

\* 727-747
ServeDelete ==
    /\ \E c \in BagToSet(calls) :
         /\ Waiting(c, "confirmDelete")
         /\ calls' = AnsweredWith(c,
                        [status |-> IF c.id \in srv THEN "deleted" ELSE "not_found"])
         /\ srv' = srv \ {c.id}
    /\ UNCHANGED <<serverSide, currentAudioId, deleteAudioId, audioSrc, currentTime, transcript,
                   library, activeItem, confirmOpen, gone>>

\* ---- 507-539 loadLibrary, after its await: the list is built anew.
LoadLibraryResumes ==
    /\ \E c \in BagToSet(calls) :
         /\ Answered(c, "loadLibrary")
         /\ library' = c.answer.ids
         /\ calls' = Ended(c)
    /\ activeItem' = "null"
    /\ UNCHANGED <<serverSide, currentAudioId, deleteAudioId, audioSrc, currentTime, transcript,
                   confirmOpen, srv, gone>>

\* ---- 573-604 loadAudio
\* 574-578: a click on an entry of the library, up to the fetch.  The page
\* under an open modal cannot be clicked.
LoadAudio ==
    /\ ~confirmOpen
    /\ BagCardinality(calls) < MaxInFlight
    /\ \E id \in library :
         /\ activeItem' = id
         /\ currentAudioId' = id
         /\ calls' = Started(Call("loadAudio", id, FALSE))
         /\ gone' = gone \ {id}
    /\ UNCHANGED <<serverSide, deleteAudioId, audioSrc, currentTime, transcript, library,
                   confirmOpen, srv>>

\* 579-603: res.json() throws on the error page and the call ends there;
\* otherwise the source is set, which puts the element's clock back to 0, and
\* the transcript is built anew.
LoadAudioResumes ==
    /\ \E c \in BagToSet(calls) :
         /\ Answered(c, "loadAudio")
         /\ IF c.answer.status = "ok"
            THEN /\ audioSrc' = c.answer.audio_url
                 /\ currentTime' = 0
                 /\ transcript' = RenderSegments(c.id, c.answer.segments)
            ELSE UNCHANGED <<audioSrc, currentTime, transcript>>
         /\ calls' = Ended(c)
    /\ UNCHANGED <<serverSide, currentAudioId, deleteAudioId, library, activeItem,
                   confirmOpen, srv, gone>>

\* ---- 591-596: a click on a segment: seek to its start, play, mark it.
SegmentClick ==
    /\ ~confirmOpen
    /\ \E k \in DOMAIN transcript :
         /\ currentTime' = transcript[k].s.start
         /\ transcript' = Activate(transcript, k)
    /\ UNCHANGED <<serverSide, currentAudioId, deleteAudioId, audioSrc, library, activeItem,
                   confirmOpen, calls, srv, gone>>

\* ---- the audio element's clock, or a seek with its own controls, while it
\* has a source
MediaClock ==
    /\ audioSrc # ""
    /\ \E t \in ClockTimes : t # currentTime /\ currentTime' = t
    /\ UNCHANGED <<serverSide, currentAudioId, deleteAudioId, audioSrc, transcript, library,
                   activeItem, confirmOpen, calls, srv, gone>>

\* ---- 607-621: the timeupdate listener
TimeUpdate ==
    /\ transcript' = Highlight(transcript, currentTime)
    /\ UNCHANGED <<serverSide, currentAudioId, deleteAudioId, audioSrc, currentTime, library,
                   activeItem, confirmOpen, calls, srv, gone>>

\* ---- 631-634: the bin of an entry of the library
ShowDeleteConfirm ==
    /\ ~confirmOpen
    /\ \E id \in library : deleteAudioId' = id
    /\ confirmOpen' = TRUE
    /\ UNCHANGED <<serverSide, currentAudioId, audioSrc, currentTime, transcript, library,
                   activeItem, calls, srv, gone>>

\* ---- 636-639: Cancel, or a click beside the dialog (667-676)
CloseConfirmModal ==
    /\ confirmOpen
    /\ confirmOpen' = FALSE
    /\ deleteAudioId' = "null"
    /\ UNCHANGED <<serverSide, currentAudioId, audioSrc, currentTime, transcript, library,
                   activeItem, calls, srv, gone>>

\* ---- 641-664 confirmDelete
\* 642-645: the Delete button of the dialog, up to the fetch; the id is in
\* the URL of the request.
ConfirmDelete ==
    /\ confirmOpen
    /\ deleteAudioId # "null"
    /\ BagCardinality(calls) < MaxInFlight
    /\ calls' = Started(Call("confirmDelete", deleteAudioId,
                                 currentAudioId = deleteAudioId))
    /\ UNCHANGED <<serverSide, currentAudioId, deleteAudioId, audioSrc, currentTime, transcript,
                   library, activeItem, confirmOpen, srv, gone>>

\* 647-663: the page is cleared when the two variables agree now (an element
\* without a source has its clock at 0), then
\* loadLibrary() is called and the dialog closed.
ConfirmDeleteResumes ==
    /\ \E c \in BagToSet(calls) :
         /\ Answered(c, "confirmDelete")
         /\ IF currentAudioId = deleteAudioId
            THEN /\ audioSrc' = ""
                 /\ currentTime' = 0
                 /\ transcript' = <<>>
                 /\ currentAudioId' = "null"
            ELSE UNCHANGED <<audioSrc, currentTime, transcript, currentAudioId>>
         /\ calls' = Ended(c) (+) SetToBag({Call("loadLibrary", "null", FALSE)})
         /\ gone' = IF c.wasCurrent THEN gone \cup {c.id} ELSE gone
    /\ confirmOpen' = FALSE
    /\ deleteAudioId' = "null"
    /\ UNCHANGED <<serverSide, library, activeItem, srv>>

NextClient ==
    \/ ServeLibrary
    \/ ServeAudioData
    \/ ServeDelete
    \/ LoadLibraryResumes
    \/ LoadAudio
    \/ LoadAudioResumes
    \/ SegmentClick
    \/ MediaClock
    \/ TimeUpdate
    \/ ShowDeleteConfirm
    \/ CloseConfirmModal
    \/ ConfirmDelete
    \/ ConfirmDeleteResumes

SpecClient == Init /\ [][NextClient]_vars

\* ======================================================== claims under Spec
HasAudioRow(tbl, audio_id) == \E i \in DOMAIN tbl : tbl[i].id = audio_id

Listed(audio_id) ==
    \E j \in DOMAIN LibraryResponse.body : LibraryResponse.body[j].id = audio_id

\* The uploads that returned {status: ok} and were not deleted since.
LiveUploads == { i \in DOMAIN uploads : uploads[i].ok /\ uploads[i].id \notin deleted }

\* C1: for every upload that returned ok, and whatever other uploads, deletes
\* of other ids and restarts followed, GET /audio_data/{id} answers with
\* exactly the triples the collaborator produced for it, in their order.
C1_RoundTrip ==
    \A i \in LiveUploads :
        /\ AudioDataResponse(uploads[i].id).status = "ok"
        /\ AudioDataResponse(uploads[i].id).segments = uploads[i].produced

\* C1 witness: a second upload with segments of its own was made and deleted,
\* and the first upload's two different segments are read back.
C1_Witness ==
    /\ Len(uploads) = 2
    /\ uploads[1].ok /\ uploads[2].ok
    /\ uploads[2].id \in deleted
    /\ uploads[2].produced # <<>>
    /\ resp.op = "delete" /\ resp.status = "deleted" /\ resp.arg = uploads[2].id
    /\ LET got == AudioDataResponse(uploads[1].id)
       IN  /\ got.status = "ok"
           /\ Len(got.segments) = 2 /\ got.segments[1] # got.segments[2]
           /\ got.segments = uploads[1].produced

\* C2: an upload that returned ok is listed by GET /library exactly once, under
\* its generated id and with its original name, until a delete of that id
\* returns "deleted".
C2_ListedAfterUpload ==
    \A i \in LiveUploads :
        LET body == LibraryResponse.body
            mine == { j \in DOMAIN body : body[j].id = uploads[i].id }
        IN  /\ Cardinality(mine) = 1
            /\ \A j \in mine : body[j].original_name = uploads[i].name

\* C2 witness: right after the second of two uploads of different names
\* returned ok, the library lists both.
C2_Witness ==
    /\ LiveUploads = {1, 2}
    /\ resp = [op |-> "transcribe", status |-> "ok"]
    /\ uploads[1].name # uploads[2].name
    /\ LibraryResponse.body =
          << [id |-> uploads[1].id, original_name |-> uploads[1].name],
             [id |-> uploads[2].id, original_name |-> uploads[2].name] >>

\* C3: a delete of an id that is in the store removes its audio row and all of
\* its segment rows and answers "deleted", and the library no longer lists it;
\* a delete of an id that is not in the store answers "not_found" and leaves
\* both tables, what is committed and the upload directory as they were.
C3_DeleteContract ==
    [][ (resp'.op = "delete" /\ resp' # resp) =>
          IF HasAudioRow(audio, resp'.arg)
          THEN /\ resp'.status = "deleted"
               /\ ~HasAudioRow(audio', resp'.arg)
               /\ \A i \in DOMAIN segments' : segments'[i].audio_id # resp'.arg
               /\ \A j \in DOMAIN LibraryDicts(SelectLibrary(audio')) :
                    LibraryDicts(SelectLibrary(audio'))[j].id # resp'.arg
               /\ ~HasAudioRow(dbAudio', resp'.arg)
               /\ \A i \in DOMAIN dbSegments' : dbSegments'[i].audio_id # resp'.arg
          ELSE /\ resp'.status = "not_found"
               /\ UNCHANGED <<audio, segments, dbAudio, dbSegments, files>>
      ]_vars

\* C3 witness: an id whose upload had segments was deleted, and a second
\* delete of it answered "not_found".
C3_Witness ==
    /\ resp.op = "delete" /\ resp.status = "not_found"
    /\ resp.arg \in deleted
    /\ \E i \in DOMAIN uploads :
         uploads[i].id = resp.arg /\ uploads[i].ok /\ uploads[i].produced # <<>>

\* C4 (as claimed): GET /audio_data/{id} for an id without an audio row ends
\* in a defined not-found answer.
C4_UnknownIdNotFound ==
    \A audio_id \in AllIds :
        ~HasAudioRow(audio, audio_id) => AudioDataResponse(audio_id).status = "not_found"

\* C5 (as claimed): every listed id has as many segments as the collaborator
\* produced for it, and an upload that did not return ok left no audio row
\* and no segment rows visible.
C5_AllOrNothing ==
    \A i \in DOMAIN uploads :
        /\ Listed(uploads[i].id) =>
             /\ AudioDataResponse(uploads[i].id).status = "ok"
             /\ Len(AudioDataResponse(uploads[i].id).segments) = Len(uploads[i].produced)
        /\ ~uploads[i].ok =>
             /\ ~Listed(uploads[i].id)
             /\ SelectSegments(segments, uploads[i].id) = <<>>

\* C6: once a delete of an id returned "deleted", the file stored for that id
\* is in the upload directory no more, and GET /audio/{storedName} serves it
\* no more.
C6_FileGoneAfterDelete ==
    \A i \in DOMAIN uploads :
        uploads[i].id \in deleted =>
            /\ uploads[i].filename \notin files
            /\ GetAudioResponse(uploads[i].filename).status # "ok"

\* C6 witness: the file of an upload that was just deleted is served no more,
\* while another file is still in the directory.
C6_Witness ==
    /\ resp.op = "delete" /\ resp.status = "deleted"
    /\ \E i \in DOMAIN uploads :
         /\ uploads[i].ok
         /\ uploads[i].id = resp.arg
         /\ GetAudioResponse(uploads[i].filename).status = "error"
    /\ files # {}

\* C8: two uploads that returned ok have different ids and different stored
\* names, and a delete of one id leaves every other upload's audio row, its
\* segment rows in their order and its file as they were.
C8_IndependentUploads ==
    /\ [](\A i, j \in DOMAIN uploads :
             (i # j /\ uploads[i].ok /\ uploads[j].ok) =>
                 /\ uploads[i].id # uploads[j].id
                 /\ uploads[i].filename # uploads[j].filename)
    /\ [][ (resp'.op = "delete" /\ resp' # resp) =>
             \A i \in DOMAIN uploads :
                 (uploads[i].ok /\ uploads[i].id # resp'.arg) =>
                     /\ SelectSeq(audio', LAMBDA r : r.id = uploads[i].id)
                            = SelectSeq(audio, LAMBDA r : r.id = uploads[i].id)
                     /\ SelectSeq(segments', LAMBDA r : r.audio_id = uploads[i].id)
                            = SelectSeq(segments, LAMBDA r : r.audio_id = uploads[i].id)
                     /\ (uploads[i].filename \in files') = (uploads[i].filename \in files)
         ]_vars

\* C8 witness: of two uploads of the same original name one was just deleted,
\* and the other still has its row, its two segments and its file.
C8_Witness ==
    /\ Len(uploads) = 2
    /\ uploads[1].ok /\ uploads[2].ok
    /\ uploads[1].name = uploads[2].name
    /\ resp.op = "delete" /\ resp.status = "deleted" /\ resp.arg = uploads[1].id
    /\ HasAudioRow(audio, uploads[2].id)
    /\ Len(uploads[2].produced) = 2
    /\ AudioDataResponse(uploads[2].id).segments = uploads[2].produced
    /\ uploads[2].filename \in files
    /\ uploads[1].filename \notin files

\* ==================================================== claims under SpecConc
\* C7 (as claimed): whatever happens to the asset, a delete request that
\* found its audio row does not fail: no delete request ends in the error
\* that removing the file raises.
C7_AssetRemovalNonFatal ==
    \A t \in Threads :
        (thr[t].pc = "done" /\ thr[t].op = "delete" /\ thr[t].had) =>
            ~(thr[t].ret.status = "error" /\ thr[t].ret.raised = "FileNotFoundError")

\* The stored names an id can have.
NamesOf(audio_id) == { StoredName(audio_id, n) : n \in Names }

\* A GET /library that answered: its list is the one its own SELECT gave.
LibraryOwnRows ==
    \A t \in Threads :
        (thr[t].pc = "done" /\ thr[t].op = "library" /\ thr[t].ret.status = "ok") =>
            thr[t].ret.body = thr[t].ret.own

\* A GET /audio_data/{id} that answered: the file is one of this id and the
\* segments are those its own SELECT gave.
AudioDataOwnRows ==
    \A t \in Threads :
        (thr[t].pc = "done" /\ thr[t].op = "audio_data" /\ thr[t].ret.status = "ok") =>
            /\ \E f \in NamesOf(thr[t].arg) : thr[t].ret.audio_url = "/audio/" \o f
            /\ thr[t].ret.segments = thr[t].ret.own

\* A DELETE /delete/{id} that has removed a file: it is a file of this id.
DeleteOwnFile ==
    \A t \in Threads :
        (thr[t].pc \in {"d_segments", "d_audio", "d_commit"} /\ thr[t].removed) =>
            thr[t].filename \in NamesOf(thr[t].arg)

\* C11 (as claimed): however the requests handled at the same time interleave
\* on the one shared cursor, a response is built only from the rows of the
\* request's own query: GET /library returns no rows of another request's
\* query, GET /audio_data/{id} returns no filename or segments of another
\* id, and DELETE /delete/{id} removes no file of another id.
C11_OwnRowsOnly == LibraryOwnRows /\ AudioDataOwnRows /\ DeleteOwnFile

\* ================================================== claims under SpecClient
ActiveSpans == { i \in DOMAIN transcript : transcript[i].active }
PlayingSpans == { i \in DOMAIN transcript : transcript[i].playing }

\* C9: a tick of the media clock marks a rendered segment 'playing' exactly
\* when start <= currentTime <= end, both ends included, so that at a shared
\* boundary two segments are marked; a second tick at the same time changes
\* nothing; a tick never touches the 'active' mark, which a segment click
\* puts on the clicked segment alone, so that at most one segment carries it.
C9_PlaybackSync ==
    /\ [](Cardinality(ActiveSpans) <= 1)
    /\ [][ TimeUpdate =>
             /\ DOMAIN transcript' = DOMAIN transcript
             /\ \A i \in DOMAIN transcript :
                  /\ transcript'[i].playing <=>
                       (transcript[i].s.start <= currentTime
                        /\ currentTime <= transcript[i].s.end)
                  /\ transcript'[i].active = transcript[i].active
                  /\ transcript'[i].s = transcript[i].s
             /\ Highlight(transcript', currentTime') = transcript' ]_vars

\* After a click on the second segment and a tick at the time where the
\* first segment ends and the second starts: both are 'playing', one 'active'.
C9_Witness ==
    /\ Len(transcript) = 2
    /\ currentTime = transcript[1].s.end
    /\ currentTime = transcript[2].s.start
    /\ PlayingSpans = {1, 2}
    /\ ActiveSpans = {2}

Shows(id) ==
    \/ currentAudioId = id
    \/ audioSrc = "/audio/" \o StoredNameOf(id)
    \/ \E i \in DOMAIN transcript : transcript[i].of = id

\* C10: once the deletion of the audio that was loaded when the deletion was
\* confirmed has been handled by the page, and every request of the page has
\* been answered and handled, the page is idle as far as that audio goes: it
\* is not the current audio, the player does not point at its file, and no
\* segment of it is rendered.
C10_IdleAfterDelete ==
    calls = EmptyBag => \A id \in gone : ~Shows(id)

====
